---- MODULE Spec2Model ----
(***************************************************************************)
(* Model of the wormhole relay (src/wormhole/src/main.rs): the session     *)
(* registry, the per-socket handler (reader loop and writer task), the     *)
(* router, the admin endpoints and the token gate.                         *)
(*                                                                         *)
(* A connection's queue handle (the mpsc sender `tx` and its clones) is    *)
(* identified with the connection's number; same_channel is equality of    *)
(* these numbers.  Rust's Option is a sequence of length 0 or 1.           *)
(***************************************************************************)
EXTENDS Integers, Sequences, FiniteSets, TLC

\* ---------------------------------------------------------------- bounds
MaxConn == 3
MaxRecv == 2
MaxRng == 2
MaxDraws == 2

\* ------------------------------------------------------------- constants
IdLen == 6

CHARSET ==
  << "A", "B", "C", "D", "E", "F", "G", "H", "J", "K", "L", "M", "N", "P", "Q", "R",
     "S", "T", "U", "V", "W", "X", "Y", "Z", "2", "3", "4", "5", "6", "7", "8", "9" >>

None == << >>

Some(x) == << x >>

Horizon == "Horizon"

Voyager == "Voyager"

NoRole == "NoRole"

Conns == 1 .. MaxConn

\* ------------------------------------------------------------- messages
Text(t) == [kind |-> "Text", data |-> t]

Binary(b) == [kind |-> "Binary", data |-> b]

Close == [kind |-> "Close", data |-> ""]

ControlTypes == {"list", "create", "close", "stdin", "resize"}

OtherTypes == {"output"}

TypedObjectText(t) == "{\"type\":\"" \o t \o "\"}"

JString(s) == [tag |-> "String", val |-> s]

JNumber(n) == [tag |-> "Number", val |-> n]

JArray(a) == [tag |-> "Array", val |-> a]

JObject(m) == [tag |-> "Object", val |-> m]

\* The JSON documents the clients of the model send, with their parse.
JsonTable ==
  { << TypedObjectText(t), JObject([type |-> JString(t)]) >> : t \in ControlTypes \cup OtherTypes }
    \cup { << "{\"type\":1}", JObject([type |-> JNumber(1)]) >>,
           << "{\"v\":1}", JObject([v |-> JNumber(1)]) >>,
           << "[\"create\"]", JArray(<< JString("create") >>) >>,
           << "\"create\"", JString("create") >> }

from_str(text) ==
  IF \E p \in JsonTable : p[1] = text
    THEN [ok |-> TRUE, value |-> (CHOOSE p \in JsonTable : p[1] = text)[2]]
    ELSE [ok |-> FALSE, value |-> None]

MapGet(m, k) == IF k \in DOMAIN m THEN Some(m[k]) ELSE None

HorizonOffline ==
  Text("{\"code\":\"horizon_offline\",\"message\":\"Horizon is not connected for this session\",\"type\":\"error\",\"v\":1}")

\* Mutant: a reply to every object with a string "type".
build_no_horizon_reply_any_type(msg) ==
  IF msg.kind # "Text" THEN None
  ELSE LET parsed == from_str(msg.data) IN
    IF ~parsed.ok THEN None
    ELSE IF parsed.value.tag # "Object" THEN None
    ELSE LET typ == MapGet(parsed.value.val, "type") IN
      IF typ = None \/ typ[1].tag # "String" THEN None ELSE Some(HorizonOffline)

build_no_horizon_reply(msg) ==
  IF msg.kind # "Text" THEN None
  ELSE LET parsed == from_str(msg.data) IN
    IF ~parsed.ok THEN None
    ELSE IF parsed.value.tag # "Object" THEN None
    ELSE LET typ == MapGet(parsed.value.val, "type") IN
      IF typ = None \/ typ[1].tag # "String" THEN None
      ELSE IF typ[1].val \notin {"list", "create", "close", "stdin", "resize"} THEN None
      ELSE Some(HorizonOffline)

\* What the readers of the model receive from their sockets.
AllMsgs ==
  { Text(p[1]) : p \in JsonTable } \cup { Text("not json"), Binary("b"), Close }

\* The frames of the relay's main specification: a control request, an
\* opaque frame and a close frame.
RelayMsgs == { Text(TypedObjectText("create")), Text(TypedObjectText("output")), Close }

\* ------------------------------------------------------- session registry
SessionNew == [horizon |-> None, voyagers |-> << >>]

MapPut(m, k, v) == [x \in (DOMAIN m) \cup {k} |-> IF x = k THEN v ELSE m[x]]

MapRemove(m, k) == [x \in (DOMAIN m) \ {k} |-> m[x]]

EmptyMap == [x \in {} |-> SessionNew]

\* Mutant: handles compared by what they hold, which is the same for all.
same_channel_by_value(a, b) == TRUE

same_channel(a, b) == a = b

SessionStatus(id, s) ==
  [session |-> id, horizon_connected |-> (s.horizon # None), voyager_count |-> Len(s.voyagers)]

\* ------------------------------------------------------- session ids
\* One draw of the generator: IdLen indices into CHARSET.  The model's rng
\* varies the last index only.
RngDraws == { [i \in 1 .. IdLen |-> IF i = IdLen THEN k ELSE 0] : k \in 0 .. (MaxRng - 1) }

RngStreams == UNION { [1 .. n -> RngDraws] : n \in 1 .. MaxDraws }

IdOfDraw(d) == [i \in 1 .. IdLen |-> CHARSET[d[i] + 1]]

\* Mutant: a generator that returns its first draw unchecked.
generate_session_id_unchecked(existing, rng) ==
  IF rng = << >> THEN None ELSE Some(IdOfDraw(Head(rng)))

RECURSIVE generate_session_id(_, _)
generate_session_id(existing, rng) ==
  IF rng = << >> THEN None
  ELSE LET id == IdOfDraw(Head(rng)) IN
    IF id \notin existing THEN Some(id) ELSE generate_session_id(existing, Tail(rng))

GenIds == { IdOfDraw(d) : d \in RngDraws }

IsBlank(s) == \A i \in 1 .. Len(s) : s[i] = " "

\* The session id clients name in their requests: the generator's first id.
ClientIds == { IdOfDraw([i \in 1 .. IdLen |-> 0]) }

\* The `session` query parameter as clients supply it.
SessionParams == {None, Some(<< " " >>)} \cup { Some(id) : id \in ClientIds }

\* The `token` query parameter as clients supply it.
TokenParams == {None, Some("secret"), Some("wrong")}

\* WORMHOLE_TOKEN as the environment may hold it.
TokenEnv == {None, Some(""), Some("secret")}

RoleParams == {"horizon", "voyager", "admin"}

\* Mutant: a gate that lets a request without token pass.
token_valid_missing_ok(required, supplied) ==
  IF required # None THEN supplied = None \/ supplied = Some(required[1]) ELSE TRUE

token_valid(required, supplied) ==
  IF required # None THEN supplied = Some(required[1]) ELSE TRUE

\* ws_handler, lines 129-152: the answer to an upgrade request.
ws_handler(required, r, s, t) ==
  LET session == IF s # None /\ IsBlank(s[1]) THEN None ELSE s IN
    IF r \notin {"horizon", "voyager"} THEN [status |-> "BAD_REQUEST", role |-> NoRole, session |-> None]
    ELSE IF r = "voyager" /\ session = None
      THEN [status |-> "BAD_REQUEST", role |-> NoRole, session |-> None]
    ELSE IF required # None /\ ~(t # None /\ t[1] = required[1])
      THEN [status |-> "UNAUTHORIZED", role |-> NoRole, session |-> None]
    ELSE [status |-> "UPGRADE", role |-> IF r = "horizon" THEN Horizon ELSE Voyager,
          session |-> session]

\* ------------------------------------------------------------------ state
VARIABLES
  token,          \* AppState.token
  sessions,       \* AppState.sessions: session id -> Session
  pc,             \* position of each connection's handler
  role,           \* handle_socket's role
  session_id,     \* handle_socket's session_id, once resolved
  chan,           \* frames in each connection's mpsc channel
  rx_open,        \* whether the channel's receiver rx still exists
  send_task,      \* position of each connection's writer task
  cleanups,       \* executions of cleanup_connection per connection and caller
  nrecv,          \* frames received by all readers so far
  resp,           \* the answer of the last step, when it served an HTTP request
  wire,           \* the frame the last step wrote to a socket, when it wrote one
  close_sent      \* whether each connection's sink, while it exists, has sent a Close frame

vars ==
  << token, sessions, pc, role, session_id, chan, rx_open, send_task, cleanups, nrecv, resp,
     wire, close_sent >>

conn_vars == << pc, role, session_id, send_task, cleanups >>

NoResp == None

Init ==
  /\ \E env \in TokenEnv : token = IF env # None /\ env[1] = "" THEN None ELSE env
  /\ sessions = EmptyMap
  /\ pc = [c \in Conns |-> "idle"]
  /\ role = [c \in Conns |-> NoRole]
  /\ session_id = [c \in Conns |-> None]
  /\ chan = [c \in Conns |-> << >>]
  /\ rx_open = [c \in Conns |-> TRUE]
  /\ send_task = [c \in Conns |-> "unspawned"]
  /\ cleanups = [c \in Conns |-> [handler |-> 0, writer |-> 0]]
  /\ nrecv = 0
  /\ resp = NoResp
  /\ wire = None
  /\ close_sent = [c \in Conns |-> FALSE]

\* ------------------------------------------------ channel and registry steps
\* UnboundedSender::send: fails exactly when the receiver is gone.
send_ok(rx, tx) == rx[tx]

send(ch, rx, tx, msg) == IF send_ok(rx, tx) THEN [ch EXCEPT ![tx] = Append(@, msg)] ELSE ch

\* Mutant: a fan-out that stops after its first send.
send_each_first_only(ch, rx, txs, msg) ==
  IF txs = << >> THEN ch ELSE IF rx[Head(txs)] THEN [ch EXCEPT ![Head(txs)] = Append(@, msg)] ELSE ch

\* A sequence of sends of msg, to each handle of txs in order.
RECURSIVE send_each(_, _, _, _)
send_each(ch, rx, txs, msg) ==
  IF txs = << >> THEN ch ELSE send_each(send(ch, rx, Head(txs), msg), rx, Tail(txs), msg)

\* Mutant: a Voyager's cleanup that empties the voyager list.
cleanup_connection_drop_voyagers(S, r, id, tx) ==
  IF id \notin DOMAIN S THEN S
  ELSE LET s == S[id]
           t == IF r = Horizon
                  THEN IF s.horizon # None /\ same_channel(s.horizon[1], tx)
                         THEN [s EXCEPT !.horizon = None]
                         ELSE s
                  ELSE [s EXCEPT !.voyagers = << >>]
       IN IF t.horizon = None /\ t.voyagers = << >> THEN MapRemove(S, id) ELSE MapPut(S, id, t)

\* Mutant: a Voyager's cleanup that removes the last voyager of the list.
cleanup_connection_pop(S, r, id, tx) ==
  IF id \notin DOMAIN S THEN S
  ELSE LET s == S[id]
           t == IF r = Horizon
                  THEN IF s.horizon # None /\ same_channel(s.horizon[1], tx)
                         THEN [s EXCEPT !.horizon = None]
                         ELSE s
                  ELSE [s EXCEPT !.voyagers = IF @ = << >> THEN @ ELSE SubSeq(@, 1, Len(@) - 1)]
       IN IF t.horizon = None /\ t.voyagers = << >> THEN MapRemove(S, id) ELSE MapPut(S, id, t)

\* Mutant: cleanup that leaves an emptied session in the registry.
cleanup_connection_no_gc(S, r, id, tx) ==
  IF id \notin DOMAIN S THEN S
  ELSE LET s == S[id] IN
    MapPut(S, id, IF r = Horizon
                    THEN IF s.horizon # None /\ same_channel(s.horizon[1], tx)
                           THEN [s EXCEPT !.horizon = None]
                           ELSE s
                    ELSE [s EXCEPT !.voyagers = SelectSeq(@, LAMBDA v : ~same_channel(v, tx))])

cleanup_connection(S, r, id, tx) ==
  IF id \notin DOMAIN S THEN S
  ELSE LET s == S[id]
           t == IF r = Horizon
                  THEN IF s.horizon # None /\ same_channel(s.horizon[1], tx)
                         THEN [s EXCEPT !.horizon = None]
                         ELSE s
                  ELSE [s EXCEPT !.voyagers = SelectSeq(@, LAMBDA v : ~same_channel(v, tx))]
       IN IF t.horizon = None /\ t.voyagers = << >> THEN MapRemove(S, id) ELSE MapPut(S, id, t)

\* Mutant: a Voyager's frame clears the horizon slot when its send succeeds.
route_sessions_inverted(S, rx, r, id, msg) ==
  IF id \notin DOMAIN S THEN S
  ELSE LET s == S[id] IN
    IF r = Horizon
      THEN MapPut(S, id, [s EXCEPT !.voyagers = SelectSeq(@, LAMBDA v : send_ok(rx, v))])
      ELSE IF s.horizon # None /\ send_ok(rx, s.horizon[1])
             THEN MapPut(S, id, [s EXCEPT !.horizon = None])
             ELSE S

\* route_message's effect on the registry.
route_sessions(S, rx, r, id, msg) ==
  IF id \notin DOMAIN S THEN S
  ELSE LET s == S[id] IN
    IF r = Horizon
      THEN MapPut(S, id, [s EXCEPT !.voyagers = SelectSeq(@, LAMBDA v : send_ok(rx, v))])
      ELSE IF s.horizon # None /\ ~send_ok(rx, s.horizon[1])
             THEN MapPut(S, id, [s EXCEPT !.horizon = None])
             ELSE S

\* Mutant: routing that drops the frames of a sender that is no member.
route_chan_members_only(S, ch, rx, r, id, msg, origin) ==
  IF id \notin DOMAIN S THEN ch
  ELSE LET s == S[id] IN
    IF origin # None /\ s.horizon # origin /\ \A i \in DOMAIN s.voyagers : s.voyagers[i] # origin[1]
      THEN ch
    ELSE IF r = Horizon THEN send_each(ch, rx, s.voyagers, msg)
    ELSE IF s.horizon # None THEN send(ch, rx, s.horizon[1], msg)
    ELSE IF origin # None /\ build_no_horizon_reply(msg) # None
           THEN send(ch, rx, origin[1], build_no_horizon_reply(msg)[1])
           ELSE ch

\* Mutant: routing that echoes a Voyager's frame to the Voyager itself.
route_chan_echo(S, ch, rx, r, id, msg, origin) ==
  IF id \notin DOMAIN S THEN ch
  ELSE LET s == S[id] IN
    IF r = Horizon THEN send_each(ch, rx, s.voyagers, msg)
    ELSE IF s.horizon # None THEN send(send(ch, rx, s.horizon[1], msg), rx, origin[1], msg)
    ELSE IF origin # None /\ build_no_horizon_reply(msg) # None
           THEN send(ch, rx, origin[1], build_no_horizon_reply(msg)[1])
           ELSE ch

\* Mutant: routing that takes an absent session for an empty one.
route_chan_absent_as_empty(S, ch, rx, r, id, msg, origin) ==
  LET s == IF id \in DOMAIN S THEN S[id] ELSE SessionNew IN
    IF r = Horizon THEN send_each(ch, rx, s.voyagers, msg)
    ELSE IF s.horizon # None THEN send(ch, rx, s.horizon[1], msg)
    ELSE IF origin # None /\ build_no_horizon_reply(msg) # None
           THEN send(ch, rx, origin[1], build_no_horizon_reply(msg)[1])
           ELSE ch

\* route_message's effect on the channels.
route_chan(S, ch, rx, r, id, msg, origin) ==
  IF id \notin DOMAIN S THEN ch
  ELSE LET s == S[id] IN
    IF r = Horizon THEN send_each(ch, rx, s.voyagers, msg)
    ELSE IF s.horizon # None THEN send(ch, rx, s.horizon[1], msg)
    ELSE IF origin # None /\ build_no_horizon_reply(msg) # None
           THEN send(ch, rx, origin[1], build_no_horizon_reply(msg)[1])
           ELSE ch

\* ------------------------------------------------------------ the handler
Response(op, id, st, body) == [op |-> op, id |-> id, status |-> st, body |-> body]

\* Mutant: a join that keeps the Horizon a session already has.
join_first_wins(S, r, id, tx) ==
  LET session == IF id \in DOMAIN S THEN S[id] ELSE SessionNew IN
    MapPut(S, id, IF r = Horizon
                    THEN IF session.horizon # None THEN session
                         ELSE [session EXCEPT !.horizon = Some(tx)]
                    ELSE [session EXCEPT !.voyagers = Append(@, tx)])

\* handle_socket, lines 230-251: the registry after tx joined under id.
join(S, r, id, tx) ==
  LET session == IF id \in DOMAIN S THEN S[id] ELSE SessionNew IN
    MapPut(S, id, IF r = Horizon
                    THEN [session EXCEPT !.horizon = Some(tx)]
                    ELSE [session EXCEPT !.voyagers = Append(@, tx)])

\* The upgrade request of the next connection (connections are numbered in
\* the order of their requests): ws_handler, then for an upgraded socket
\* handle_socket up to line 253, which resolves the session id and registers
\* tx under the registry lock.  A Voyager goes on to spawn its writer without
\* suspending; a Horizon first sends session_assigned.
upgrade(c, r, s, t, rng) ==
  /\ pc[c] = "idle"
  /\ \A d \in Conns : d < c => pc[d] # "idle"
  /\ LET a == ws_handler(token, r, s, t) IN
       IF a.status # "UPGRADE"
         THEN /\ resp' = Some(Response("ws", None, a.status, {}))
              /\ UNCHANGED << sessions, pc, role, session_id, send_task >>
         ELSE LET id == IF a.role = Horizon /\ a.session = None
                          THEN generate_session_id(DOMAIN sessions, rng)
                          ELSE a.session
              IN /\ id # None
                 /\ sessions' = join(sessions, a.role, id[1], c)
                 /\ session_id' = [session_id EXCEPT ![c] = id]
                 /\ role' = [role EXCEPT ![c] = a.role]
                 /\ IF a.role = Horizon
                      THEN /\ pc' = [pc EXCEPT ![c] = "assigning"]
                           /\ UNCHANGED send_task
                      ELSE /\ pc' = [pc EXCEPT ![c] = "reading"]
                           /\ send_task' = [send_task EXCEPT ![c] = "running"]
                 /\ resp' = NoResp
  /\ wire' = None
  /\ UNCHANGED << token, chan, rx_open, cleanups, nrecv, close_sent >>

Written(c, frame) == [conn |-> c, frame |-> frame]

\* String::from_iter: the characters of a session id as one string.
RECURSIVE collect(_)
collect(chars) == IF chars = << >> THEN "" ELSE Head(chars) \o collect(Tail(chars))

\* Mutant: a session_assigned frame without the resolved id.
SessionAssigned_null(id) == Text("{\"sessionId\":null,\"type\":\"session_assigned\",\"v\":1}")

\* The session_assigned frame, lines 257-262: serde_json writes the keys of
\* the object in their order.
SessionAssigned(id) ==
  Text("{\"sessionId\":\"" \o collect(id) \o "\",\"type\":\"session_assigned\",\"v\":1}")

\* Mutant: a failed session_assigned send that returns without cleanup.
handle_socket_assign_no_cleanup(c) ==
  /\ pc[c] = "assigning"
  /\ \/ /\ wire' = Some(Written(c, SessionAssigned(session_id[c][1])))
        /\ pc' = [pc EXCEPT ![c] = "reading"]
        /\ send_task' = [send_task EXCEPT ![c] = "running"]
        /\ UNCHANGED << rx_open, chan >>
     \/ /\ rx_open' = [rx_open EXCEPT ![c] = FALSE]
        /\ chan' = [chan EXCEPT ![c] = << >>]
        /\ pc' = [pc EXCEPT ![c] = "closed"]
        /\ wire' = None
        /\ UNCHANGED send_task
  /\ resp' = NoResp
  /\ UNCHANGED << token, sessions, cleanups, role, session_id, nrecv, close_sent >>

\* handle_socket, lines 256-279: the Horizon's session_assigned frame is
\* written to the socket directly.  When that succeeds the writer is spawned;
\* when it fails the handler runs cleanup and returns, dropping rx and the
\* frames queued in it (the failed write touches this socket only, so it and
\* the cleanup that follows are one step).
handle_socket_assign(c) ==
  /\ pc[c] = "assigning"
  /\ \/ /\ wire' = Some(Written(c, SessionAssigned(session_id[c][1])))
        /\ pc' = [pc EXCEPT ![c] = "reading"]
        /\ send_task' = [send_task EXCEPT ![c] = "running"]
        /\ UNCHANGED << sessions, cleanups, rx_open, chan >>
     \/ /\ sessions' = cleanup_connection(sessions, role[c], session_id[c][1], c)
        /\ cleanups' = [cleanups EXCEPT ![c].handler = @ + 1]
        /\ rx_open' = [rx_open EXCEPT ![c] = FALSE]
        /\ chan' = [chan EXCEPT ![c] = << >>]
        /\ pc' = [pc EXCEPT ![c] = "closed"]
        /\ wire' = None
        /\ UNCHANGED send_task
  /\ resp' = NoResp
  /\ UNCHANGED << token, role, session_id, nrecv, close_sent >>

\* handle_socket, lines 281-282: receiver.next() yields Some(Ok(msg)), which
\* route_message routes under the registry lock.  After a Close frame the
\* socket's stream yields no further frame.
route_message(c, msg) ==
  /\ pc[c] = "reading"
  /\ nrecv < MaxRecv
  /\ nrecv' = nrecv + 1
  /\ sessions' = route_sessions(sessions, rx_open, role[c], session_id[c][1], msg)
  /\ chan' = route_chan(sessions, chan, rx_open, role[c], session_id[c][1], msg, Some(c))
  /\ pc' = [pc EXCEPT ![c] = IF msg.kind = "Close" THEN "reader_ended" ELSE "reading"]
  /\ resp' = NoResp
  /\ wire' = None
  /\ UNCHANGED << token, role, session_id, rx_open, send_task, cleanups, close_sent >>

\* handle_socket, lines 281-285: the reader loop has ended, or ends now
\* because receiver.next() yields None or an error, and cleanup runs.
handle_socket_cleanup(c) ==
  /\ pc[c] \in {"reading", "reader_ended"}
  /\ sessions' = cleanup_connection(sessions, role[c], session_id[c][1], c)
  /\ cleanups' = [cleanups EXCEPT ![c].handler = @ + 1]
  /\ pc' = [pc EXCEPT ![c] = "aborting"]
  /\ resp' = NoResp
  /\ wire' = None
  /\ UNCHANGED << token, role, session_id, chan, rx_open, send_task, nrecv, close_sent >>

\* Mutant: a handler that returns without cancelling its writer.
handle_socket_abort_no_cancel(c) ==
  /\ pc[c] = "aborting"
  /\ pc' = [pc EXCEPT ![c] = "closed"]
  /\ resp' = NoResp
  /\ wire' = None
  /\ UNCHANGED << token, sessions, role, session_id, cleanups, nrecv, send_task, rx_open, chan,
                  close_sent >>

\* handle_socket, lines 286-288: the writer is cancelled unless it has
\* finished, its rx and its sink are dropped with the frames queued in rx,
\* and the handler returns.
handle_socket_abort(c) ==
  /\ pc[c] = "aborting"
  /\ send_task' = [send_task EXCEPT ![c] = IF @ = "done" THEN "done" ELSE "aborted"]
  /\ rx_open' = [rx_open EXCEPT ![c] = FALSE]
  /\ chan' = [chan EXCEPT ![c] = << >>]
  /\ close_sent' = [close_sent EXCEPT ![c] = FALSE]
  /\ pc' = [pc EXCEPT ![c] = "closed"]
  /\ resp' = NoResp
  /\ wire' = None
  /\ UNCHANGED << token, sessions, role, session_id, cleanups, nrecv >>

\* Whether the socket of connection c takes another frame: the WebSocket sink
\* refuses every frame offered after it has sent a Close frame.
sink_active(c) == ~close_sent[c]

\* Mutant: a writer that leaves its loop once it has written a close frame.
send_task_write_until_close(c) ==
  /\ send_task[c] = "running"
  /\ chan[c] # << >>
  /\ \/ /\ sink_active(c)
        /\ Head(chan[c]).kind # "Close"
        /\ wire' = Some(Written(c, Head(chan[c])))
        /\ chan' = [chan EXCEPT ![c] = Tail(@)]
        /\ UNCHANGED << sessions, cleanups, send_task, rx_open, close_sent >>
     \/ /\ sink_active(c)
        /\ Head(chan[c]).kind = "Close"
        /\ wire' = Some(Written(c, Head(chan[c])))
        /\ sessions' = cleanup_connection(sessions, role[c], session_id[c][1], c)
        /\ cleanups' = [cleanups EXCEPT ![c].writer = @ + 1]
        /\ send_task' = [send_task EXCEPT ![c] = "done"]
        /\ rx_open' = [rx_open EXCEPT ![c] = FALSE]
        /\ chan' = [chan EXCEPT ![c] = << >>]
        /\ close_sent' = [close_sent EXCEPT ![c] = FALSE]
     \/ /\ sessions' = cleanup_connection(sessions, role[c], session_id[c][1], c)
        /\ cleanups' = [cleanups EXCEPT ![c].writer = @ + 1]
        /\ send_task' = [send_task EXCEPT ![c] = "done"]
        /\ rx_open' = [rx_open EXCEPT ![c] = FALSE]
        /\ chan' = [chan EXCEPT ![c] = << >>]
        /\ wire' = None
        /\ close_sent' = [close_sent EXCEPT ![c] = FALSE]
  /\ resp' = NoResp
  /\ UNCHANGED << token, pc, role, session_id, nrecv >>

\* send_task, lines 273-278: dequeue a frame and write it to the socket.  When
\* the write fails the task leaves its loop, runs cleanup and ends, dropping
\* rx (the failed write touches this socket only, so it and the cleanup that
\* follows are one step).  A write may fail at any time, and fails once the
\* sink has sent a Close frame.  The sink is dropped with the task.
send_task_write(c) ==
  /\ send_task[c] = "running"
  /\ chan[c] # << >>
  /\ \/ /\ sink_active(c)
        /\ wire' = Some(Written(c, Head(chan[c])))
        /\ chan' = [chan EXCEPT ![c] = Tail(@)]
        /\ close_sent' = [close_sent EXCEPT ![c] = @ \/ Head(chan[c]).kind = "Close"]
        /\ UNCHANGED << sessions, cleanups, send_task, rx_open >>
     \/ /\ sessions' = cleanup_connection(sessions, role[c], session_id[c][1], c)
        /\ cleanups' = [cleanups EXCEPT ![c].writer = @ + 1]
        /\ send_task' = [send_task EXCEPT ![c] = "done"]
        /\ rx_open' = [rx_open EXCEPT ![c] = FALSE]
        /\ chan' = [chan EXCEPT ![c] = << >>]
        /\ wire' = None
        /\ close_sent' = [close_sent EXCEPT ![c] = FALSE]
  /\ resp' = NoResp
  /\ UNCHANGED << token, pc, role, session_id, nrecv >>

\* ------------------------------------------------------ the admin endpoints
list_sessions(t) ==
  /\ resp' = Some(IF ~token_valid(token, t)
                    THEN Response("list", None, "UNAUTHORIZED", {})
                    ELSE Response("list", None, "OK",
                                  { SessionStatus(id, sessions[id]) : id \in DOMAIN sessions }))
  /\ wire' = None
  /\ UNCHANGED << token, sessions, chan, rx_open, nrecv, close_sent >>
  /\ UNCHANGED conn_vars

get_session(id, t) ==
  /\ resp' = Some(IF ~token_valid(token, t) THEN Response("get", Some(id), "UNAUTHORIZED", {})
                  ELSE IF id \notin DOMAIN sessions THEN Response("get", Some(id), "NOT_FOUND", {})
                  ELSE Response("get", Some(id), "OK", {SessionStatus(id, sessions[id])}))
  /\ wire' = None
  /\ UNCHANGED << token, sessions, chan, rx_open, nrecv, close_sent >>
  /\ UNCHANGED conn_vars

\* Mutant: close signals for the Voyagers only.
close_chan_voyagers_only(ch, rx, session) == send_each(ch, rx, session.voyagers, Close)

\* The close signals of close_session, lines 215-220.
close_chan(ch, rx, session) ==
  LET h == IF session.horizon # None THEN send(ch, rx, session.horizon[1], Close) ELSE ch
  IN send_each(h, rx, session.voyagers, Close)

close_session(id, t) ==
  /\ IF ~token_valid(token, t)
       THEN /\ resp' = Some(Response("close", Some(id), "UNAUTHORIZED", {}))
            /\ UNCHANGED << sessions, chan >>
       ELSE IF id \notin DOMAIN sessions
              THEN /\ resp' = Some(Response("close", Some(id), "NOT_FOUND", {}))
                   /\ UNCHANGED << sessions, chan >>
              ELSE /\ resp' = Some(Response("close", Some(id), "OK", {}))
                   /\ sessions' = MapRemove(sessions, id)
                   /\ chan' = close_chan(chan, rx_open, sessions[id])
  /\ wire' = None
  /\ UNCHANGED << token, rx_open, nrecv, close_sent >>
  /\ UNCHANGED conn_vars

\* The session ids of admin requests.
AdminIds == GenIds

\* ------------------------------------------------------------ specification
\* The requests ws_handler upgrades when no token is configured.
Connect(c) ==
  /\ pc[c] = "idle"
  /\ \E r \in {"horizon", "voyager"}, s \in SessionParams, rng \in RngStreams :
       /\ ws_handler(token, r, s, None).status = "UPGRADE"
       /\ upgrade(c, r, s, None, rng)

\* Any upgrade request, with any token.
Request(c) ==
  /\ pc[c] = "idle"
  /\ \E r \in RoleParams, s \in SessionParams, t \in TokenParams, rng \in RngStreams :
       upgrade(c, r, s, t, rng)

\* A connection's steps other than routing.
Lifecycle(c) ==
  \/ handle_socket_assign(c)
  \/ handle_socket_cleanup(c)
  \/ handle_socket_abort(c)
  \/ send_task_write(c)

Handler(c, msgs) ==
  \/ Lifecycle(c)
  \/ \E msg \in msgs : route_message(c, msg)

\* The relay started without WORMHOLE_TOKEN, or with an empty one.
InitNoToken == Init /\ token = None

\* The relay with no token configured: upgraded sockets and admin closes of
\* registered sessions.
Next ==
  \/ \E c \in Conns : Connect(c)
  \/ \E c \in Conns : Handler(c, RelayMsgs)
  \/ \E id \in AdminIds : id \in DOMAIN sessions /\ close_session(id, None)

Spec == InitNoToken /\ [][Next]_vars

\* The connections of the specifications below: all but the last.
FewConns == 1 .. (MaxConn - 1)

\* The relay with or without a token: every request, with every token.
NextGate ==
  \/ \E c \in FewConns : Request(c)
  \/ \E c \in FewConns : Handler(c, RelayMsgs)
  \/ \E t \in TokenParams : list_sessions(t)
  \/ \E id \in AdminIds, t \in TokenParams : get_session(id, t)
  \/ \E id \in AdminIds, t \in TokenParams : close_session(id, t)

SpecGate == Init /\ [][NextGate]_vars

\* The relay with no token configured, its readers receiving every kind of
\* frame.
NextReply ==
  \/ \E c \in FewConns : Connect(c)
  \/ \E c \in FewConns : Handler(c, AllMsgs)
  \/ \E id \in AdminIds : close_session(id, None)

SpecReply == InitNoToken /\ [][NextReply]_vars

\* The relay with no token configured and silent clients: joins, leaves and
\* the admin endpoints.
NextAdmin ==
  \/ \E c \in Conns : Connect(c)
  \/ \E c \in Conns : Lifecycle(c)
  \/ list_sessions(None)
  \/ \E id \in AdminIds : get_session(id, None)
  \/ \E id \in AdminIds : close_session(id, None)

SpecAdmin == InitNoToken /\ [][NextAdmin]_vars

\* The handler's way out once its reader loop has ended: cleanup_connection
\* waits for the registry lock, which every holder releases without
\* suspending, and the abort follows without suspending.
Exit(c) ==
  \/ (pc[c] = "reader_ended" /\ handle_socket_cleanup(c))
  \/ handle_socket_abort(c)

\* SpecReply under the scheduler's fairness to a handler on its way out.
SpecExit == InitNoToken /\ [][NextReply]_vars /\ \A c \in FewConns : WF_vars(Exit(c))

\* ------------------------------------------------------------------ claims
Range(q) == { q[i] : i \in DOMAIN q }

Total(c) == cleanups[c].handler + cleanups[c].writer

\* A step in which cleanup_connection runs for connection c.
CleanupStep(c) == cleanups'[c] # cleanups[c]

\* A step in which connection c joins the registry.
JoinStep(c) == pc[c] = "idle" /\ pc'[c] # "idle"

SameSession(cs) == \E id \in GenIds : \A c \in cs : session_id[c] = Some(id)

RelayedText == { Text(TypedObjectText(t)) : t \in ControlTypes \cup OtherTypes }

\* C1: a cleanup of a Horizon connection that finds another connection's
\* handle in the horizon slot of its session leaves that handle in the slot,
\* and the session in the registry.
C1StaleHorizonKept ==
  [][\A c \in Conns :
       (CleanupStep(c) /\ role[c] = Horizon) =>
         LET s == session_id[c][1] IN
           (s \in DOMAIN sessions /\ sessions[s].horizon # None /\ sessions[s].horizon[1] # c) =>
             (s \in DOMAIN sessions' /\ sessions'[s].horizon = sessions[s].horizon)]_vars

\* Horizon h1 has run its cleanup after relaying a frame to Voyager v, which
\* joined after Horizon h2 had replaced h1; h2, still about to send
\* session_assigned, holds the slot.
C1Witness ==
  \E h1, h2, v \in Conns :
    /\ h1 < h2 /\ h2 < v
    /\ role[h1] = Horizon /\ role[h2] = Horizon /\ role[v] = Voyager
    /\ SameSession({h1, h2, v})
    /\ pc[h2] = "assigning"
    /\ cleanups[h1].handler = 1
    /\ chan[v] # << >> /\ chan[v][1] \in RelayedText
    /\ session_id[h1][1] \in DOMAIN sessions
    /\ sessions[session_id[h1][1]].horizon = Some(h2)

\* C2: every session in the registry has a horizon handle or a voyager
\* handle.
C2NoEmptySession ==
  \A id \in DOMAIN sessions : sessions[id].horizon # None \/ sessions[id].voyagers # << >>

\* One connection has left a session that lives on, another has left a
\* session that is gone.
C2Witness ==
  \E c, d \in Conns :
    /\ Total(c) >= 1 /\ Total(d) >= 1
    /\ session_id[c][1] \in DOMAIN sessions
    /\ session_id[d][1] \notin DOMAIN sessions

\* C3: a Horizon's join leaves exactly its own handle in the horizon slot of
\* its session, whatever the slot held, and changes neither the session's
\* voyager list, nor another session, nor any queue.
C3HorizonReplaces ==
  [][\A c \in Conns :
       (JoinStep(c) /\ role'[c] = Horizon) =>
         LET s == session_id'[c][1] IN
           /\ s \in DOMAIN sessions'
           /\ sessions'[s].horizon = Some(c)
           /\ Len(sessions'[s].horizon) = 1
           /\ sessions'[s].voyagers = IF s \in DOMAIN sessions THEN sessions[s].voyagers ELSE << >>
           /\ DOMAIN sessions' = (DOMAIN sessions) \cup {s}
           /\ \A id \in (DOMAIN sessions) \ {s} : sessions'[id] = sessions[id]
           /\ chan' = chan]_vars

\* Horizon h2 has displaced Horizon h1, which has not left and whose queue is
\* empty, in a session with a Voyager that joined before h2.
C3Witness ==
  \E h1, h2, v \in Conns :
    /\ h1 < h2 /\ v < h2
    /\ role[h1] = Horizon /\ role[h2] = Horizon /\ role[v] = Voyager
    /\ SameSession({h1, h2, v})
    /\ pc[h1] = "assigning" /\ Total(h1) = 0 /\ chan[h1] = << >>
    /\ Total(v) = 0
    /\ session_id[h1][1] \in DOMAIN sessions
    /\ sessions[session_id[h1][1]].horizon = Some(h2)
    /\ v \in Range(sessions[session_id[h1][1]].voyagers)

\* C4: a frame routed from a Horizon is appended once, at the tail, to the
\* queue of every Voyager handle in its session's voyager list, and to no
\* other queue: not to that of a Voyager that has left, not to the Horizon's
\* own, not to one of another session.
C4HorizonFanOut ==
  [][\A c \in Conns, msg \in RelayMsgs :
       (nrecv' # nrecv /\ pc[c] = "reading" /\ role[c] = Horizon /\ route_message(c, msg)) =>
         LET s == session_id[c][1]
             to == IF s \in DOMAIN sessions THEN Range(sessions[s].voyagers) ELSE {}
         IN /\ \A v \in Conns : chan'[v] = IF v \in to THEN Append(chan[v], msg) ELSE chan[v]
            /\ \A v \in to : role[v] = Voyager /\ session_id[v] = Some(s) /\ Total(v) = 0
            /\ c \notin to]_vars

\* Voyager v1 holds two frames of its Horizon in the order they were routed;
\* Voyager v2, which left between the two, holds the first only.
C4Witness ==
  \E h, v1, v2 \in Conns :
    /\ role[h] = Horizon /\ role[v1] = Voyager /\ role[v2] = Voyager /\ v1 # v2
    /\ SameSession({h, v1, v2})
    /\ chan[v1] = << Text(TypedObjectText("create")), Text(TypedObjectText("output")) >>
    /\ chan[v2] = << Text(TypedObjectText("create")) >>
    /\ pc[v2] = "aborting"
    /\ Total(v1) = 0

\* The text frames that are a JSON object whose "type" is a control type.
ControlMsgs == { Text(TypedObjectText(t)) : t \in ControlTypes }

\* A step in which Voyager c's frame msg is routed to its session, which
\* exists and has no Horizon.
OfflineStep(c, msg) ==
  /\ nrecv' # nrecv
  /\ role[c] = Voyager
  /\ route_message(c, msg)
  /\ session_id[c][1] \in DOMAIN sessions
  /\ sessions[session_id[c][1]].horizon = None

\* C5 as claimed: a control request routed to a session without Horizon
\* appends one horizon_offline frame to the sender's queue and nothing else;
\* any other frame appends nothing; the registry is unchanged.
C5OfflineReplyAlways ==
  [][\A c \in Conns, msg \in AllMsgs :
       OfflineStep(c, msg) =>
         /\ sessions' = sessions
         /\ chan' = IF msg \in ControlMsgs THEN [chan EXCEPT ![c] = Append(@, HorizonOffline)]
                    ELSE chan]_vars

\* C5 as amended: the horizon_offline frame is appended when the sender's
\* queue still has its receiver; when the sender's writer has ended, nothing
\* is appended.
C5OfflineReply ==
  [][\A c \in Conns, msg \in AllMsgs :
       OfflineStep(c, msg) =>
         /\ sessions' = sessions
         /\ chan' = IF msg \in ControlMsgs /\ rx_open[c]
                      THEN [chan EXCEPT ![c] = Append(@, HorizonOffline)]
                      ELSE chan]_vars

\* Two Voyagers of a session without Horizon have each sent a frame: the one
\* that sent a control request holds the reply, the other holds nothing.
C5Witness ==
  \E c, d \in Conns :
    /\ c # d /\ role[c] = Voyager /\ role[d] = Voyager
    /\ SameSession({c, d})
    /\ session_id[c][1] \in DOMAIN sessions
    /\ sessions[session_id[c][1]].horizon = None
    /\ nrecv = 2 /\ pc[c] = "reading" /\ pc[d] = "reading"
    /\ send_task[c] = "running" /\ send_task[d] = "running"
    /\ chan[c] = << HorizonOffline >>
    /\ chan[d] = << >>
    /\ wire = None

\* The step answers an HTTP request of kind op.
Answers(op) == resp' # None /\ resp'[1].op = op

Members(session) ==
  (IF session.horizon # None THEN {session.horizon[1]} ELSE {}) \cup Range(session.voyagers)

\* C6: an admin close of an existing session appends a close signal to the
\* queue of its horizon handle and of each of its voyager handles, all of
\* them connections of that session, and to no other queue, and removes the
\* session and no other; an admin get of the same id served next answers
\* not-found.
C6AdminClose ==
  [][/\ \A id \in AdminIds :
          (id \in DOMAIN sessions /\ Answers("close") /\ close_session(id, None)) =>
            /\ DOMAIN sessions' = (DOMAIN sessions) \ {id}
            /\ \A k \in DOMAIN sessions' : sessions'[k] = sessions[k]
            /\ \A c \in Conns :
                 chan'[c] = IF c \in Members(sessions[id]) THEN Append(chan[c], Close) ELSE chan[c]
            /\ \A c \in Members(sessions[id]) : session_id[c] = Some(id)
            /\ resp' = Some(Response("close", Some(id), "OK", {}))
     /\ \A id \in AdminIds :
          (resp = Some(Response("close", Some(id), "OK", {})) /\ get_session(id, None)) =>
            resp' = Some(Response("get", Some(id), "NOT_FOUND", {}))]_vars

\* A Horizon and two Voyagers of a closed session each hold the close signal,
\* and the admin get that followed the close has answered not-found.
C6Witness ==
  \E h, v1, v2 \in Conns :
    /\ role[h] = Horizon /\ role[v1] = Voyager /\ role[v2] = Voyager /\ v1 # v2
    /\ SameSession({h, v1, v2})
    /\ chan[h] = << Close >> /\ chan[v1] = << Close >> /\ chan[v2] = << Close >>
    /\ session_id[h][1] \notin DOMAIN sessions
    /\ resp = Some(Response("get", session_id[h], "NOT_FOUND", {}))

\* C7: a cleanup removes its connection's own handle from the session of its
\* session id (the horizon slot if it holds that handle, or the handle's
\* entry in the voyager list), keeps every other handle in place and every
\* other session, and removes the session exactly when that leaves it empty.
C7LeaveExact ==
  [][\A c \in Conns :
       CleanupStep(c) =>
         LET s == session_id[c][1] IN
           IF s \notin DOMAIN sessions THEN sessions' = sessions
           ELSE LET old == sessions[s]
                    h == IF role[c] = Horizon /\ old.horizon = Some(c) THEN None ELSE old.horizon
                    vs == IF role[c] = Voyager
                            THEN SelectSeq(old.voyagers, LAMBDA x : x # c)
                            ELSE old.voyagers
                IN /\ (DOMAIN sessions) \ {s} \subseteq DOMAIN sessions'
                   /\ DOMAIN sessions' \subseteq DOMAIN sessions
                   /\ \A k \in (DOMAIN sessions) \ {s} : sessions'[k] = sessions[k]
                   /\ s \in DOMAIN sessions' <=> ~(h = None /\ vs = << >>)
                   /\ s \in DOMAIN sessions' => sessions'[s] = [horizon |-> h, voyagers |-> vs]]_vars

\* A Horizon has left a session whose Voyager, which joined before it, is
\* still attached: the session lives on without Horizon.  Another Horizon
\* has left a session of its own, which is gone.
C7Witness ==
  \E v, h, g \in Conns :
    /\ v < h
    /\ role[v] = Voyager /\ role[h] = Horizon /\ role[g] = Horizon
    /\ SameSession({v, h})
    /\ Total(h) = 1 /\ Total(v) = 0
    /\ session_id[v][1] \in DOMAIN sessions
    /\ sessions[session_id[v][1]] = [horizon |-> None, voyagers |-> << v >>]
    /\ session_id[g] # None /\ session_id[g] # session_id[v]
    /\ Total(g) = 1
    /\ session_id[g][1] \notin DOMAIN sessions

\* C8: a Horizon that joins without a session id is registered under an id
\* of IdLen characters of CHARSET that was no key of the registry, in a new
\* session that holds its handle only; the sessions there were are
\* unchanged.
C8FreshSessionId ==
  [][\A c \in Conns :
       (JoinStep(c) /\ role'[c] = Horizon) =>
         \A s \in {None, Some(<< " " >>)}, rng \in RngStreams :
           upgrade(c, "horizon", s, None, rng) =>
             LET id == session_id'[c][1] IN
               /\ Len(id) = IdLen
               /\ \A i \in 1 .. IdLen : id[i] \in Range(CHARSET)
               /\ id \notin DOMAIN sessions
               /\ DOMAIN sessions' = (DOMAIN sessions) \cup {id}
               /\ sessions'[id] = [horizon |-> Some(c), voyagers |-> << >>]
               /\ \A k \in DOMAIN sessions : sessions'[k] = sessions[k]]_vars

\* Two Horizons hold the slots of two live sessions, one of them under an id
\* no client names, next to a Voyager of the other session.
C8Witness ==
  \E h, g, v \in Conns :
    /\ role[h] = Horizon /\ role[g] = Horizon /\ role[v] = Voyager
    /\ session_id[h] # None /\ session_id[h][1] \notin ClientIds
    /\ session_id[g] # None /\ session_id[g][1] \in ClientIds
    /\ session_id[v] = session_id[g]
    /\ session_id[h][1] \in DOMAIN sessions /\ session_id[g][1] \in DOMAIN sessions
    /\ sessions[session_id[h][1]] = [horizon |-> Some(h), voyagers |-> << >>]
    /\ sessions[session_id[g][1]] = [horizon |-> Some(g), voyagers |-> << v >>]

\* A supplied token that is missing or differs from the configured one.
Mismatch(t) == token # None /\ t # token

\* The step answers the request with status st and nothing else: it leaves
\* the registry, every queue and every connection as they were.
Denied(op, id, st) ==
  /\ resp' = Some(Response(op, id, st, {}))
  /\ UNCHANGED << token, sessions, pc, role, session_id, chan, rx_open, send_task, cleanups, nrecv,
                  close_sent >>

Permitted == resp' = None \/ resp'[1].status # "UNAUTHORIZED"

\* A request ws_handler refuses before it looks at the token.
Malformed(r, s) ==
  r \notin {"horizon", "voyager"} \/ (r = "voyager" /\ (s = None \/ IsBlank(s[1])))

AdminGate ==
  /\ Answers("list") =>
       \A t \in TokenParams :
         /\ Mismatch(t) => (Denied("list", None, "UNAUTHORIZED") \/ ~ list_sessions(t))
         /\ token = None => (Permitted \/ ~ list_sessions(t))
  /\ Answers("get") =>
       \A id \in AdminIds, t \in TokenParams :
         /\ Mismatch(t) => (Denied("get", Some(id), "UNAUTHORIZED") \/ ~ get_session(id, t))
         /\ token = None => (Permitted \/ ~ get_session(id, t))
  /\ Answers("close") =>
       \A id \in AdminIds, t \in TokenParams :
         /\ Mismatch(t) => (Denied("close", Some(id), "UNAUTHORIZED") \/ ~ close_session(id, t))
         /\ token = None => (Permitted \/ ~ close_session(id, t))

\* The step serves an upgrade request of connection c.
ServesUpgrade(c) == pc[c] = "idle" /\ (Answers("ws") \/ JoinStep(c))

\* C9 as claimed: with a token configured, every upgrade request and every
\* admin request whose token is missing or wrong is answered unauthorized
\* and changes nothing; with none configured, no request is.
C9TokenGateAlways ==
  [][/\ AdminGate
     /\ \A c \in Conns :
          ServesUpgrade(c) =>
            \A r \in RoleParams, s \in SessionParams, t \in TokenParams :
              /\ Mismatch(t) =>
                   \/ Denied("ws", None, "UNAUTHORIZED")
                   \/ ~ \E rng \in RngStreams : upgrade(c, r, s, t, rng)
              /\ token = None =>
                   \/ Permitted
                   \/ ~ \E rng \in RngStreams : upgrade(c, r, s, t, rng)]_vars

\* C9 as amended: an upgrade request with an invalid role, or of a Voyager
\* without session id, is answered bad-request whatever its token.
C9TokenGate ==
  [][/\ AdminGate
     /\ \A c \in Conns :
          ServesUpgrade(c) =>
            \A r \in RoleParams, s \in SessionParams, t \in TokenParams :
              /\ Mismatch(t) =>
                   \/ Denied("ws", None, IF Malformed(r, s) THEN "BAD_REQUEST" ELSE "UNAUTHORIZED")
                   \/ ~ \E rng \in RngStreams : upgrade(c, r, s, t, rng)
              /\ token = None =>
                   \/ Permitted
                   \/ ~ \E rng \in RngStreams : upgrade(c, r, s, t, rng)]_vars

\* With a token configured, a connection has joined and an admin close of
\* its session has been answered unauthorized; the session is still there.
C9Witness ==
  \E c \in Conns :
    /\ token = Some("secret")
    /\ session_id[c] # None
    /\ session_id[c][1] \in DOMAIN sessions
    /\ resp = Some(Response("close", session_id[c], "UNAUTHORIZED", {}))
    /\ chan[c] = << >>

\* C10 as claimed: a closed connection has run cleanup exactly once.
C10CleanupOnce == \A c \in Conns : pc[c] = "closed" => Total(c) = 1

\* C10 as amended: a closed connection has run cleanup once from its handler
\* and at most once more from its writer, which then has ended.
C10CleanupOnExit ==
  \A c \in Conns :
    /\ cleanups[c].handler <= 1 /\ cleanups[c].writer <= 1
    /\ pc[c] = "closed" => cleanups[c].handler = 1
    /\ cleanups[c].handler = 1 => pc[c] \in {"aborting", "closed"}
    /\ cleanups[c].writer = 1 => send_task[c] = "done"

\* A closed connection whose writer and whose handler have both run cleanup.
C10Witness ==
  \E c \in Conns : pc[c] = "closed" /\ cleanups[c].handler = 1 /\ cleanups[c].writer = 1

\* The session_assigned frame a Horizon registered under id expects.
AssignedFrame(id) ==
  [kind |-> "Text",
   data |-> "{\"sessionId\":\"" \o collect(id) \o "\",\"type\":\"session_assigned\",\"v\":1}"]

IsAssignedFrame(f) == \E id \in GenIds : f = AssignedFrame(id)

\* The step writes a frame to the socket of connection c.
WritesTo(c) == wire' # None /\ wire'[1].conn = c

\* C11: the frame a Horizon's handler writes before its writer exists is the
\* session_assigned frame with the Horizon's session id, and that write is
\* what starts the writer; every other frame written to a socket is written
\* by a running writer and is no session_assigned frame; no connection
\* returns to the state before that write, and no Voyager is ever in it; a
\* Horizon whose session_assigned write fails runs cleanup in the same step,
\* is closed, and never has a writer.
C11SessionAssignedFirst ==
  [][\A c \in Conns :
       /\ WritesTo(c) =>
            IF pc[c] = "assigning"
              THEN /\ wire'[1].frame = AssignedFrame(session_id[c][1])
                   /\ send_task[c] = "unspawned" /\ send_task'[c] = "running"
                   /\ pc'[c] = "reading"
              ELSE /\ ~IsAssignedFrame(wire'[1].frame)
                   /\ send_task[c] = "running"
                   /\ chan[c] # << >> /\ wire'[1].frame = Head(chan[c])
       /\ pc[c] = "assigning" => role[c] = Horizon /\ send_task[c] = "unspawned"
       /\ pc'[c] = "assigning" => pc[c] \in {"idle", "assigning"}
       /\ (send_task[c] = "unspawned" /\ send_task'[c] # "unspawned") =>
            IF role'[c] = Horizon
              THEN pc[c] = "assigning" /\ WritesTo(c)
              ELSE pc[c] = "idle" /\ role'[c] = Voyager /\ wire' = None
       /\ (pc[c] = "assigning" /\ pc'[c] # "assigning" /\ ~WritesTo(c)) =>
            /\ pc'[c] = "closed"
            /\ cleanups'[c] = [handler |-> 1, writer |-> 0]
            /\ send_task'[c] = "unspawned"
            /\ wire' = None
       /\ (pc[c] = "closed" /\ send_task[c] = "unspawned") =>
            (pc'[c] = "closed" /\ send_task'[c] = "unspawned" /\ ~WritesTo(c))]_vars

\* A Horizon's session_assigned frame has just been written while a frame
\* relayed from a Voyager, queued since the Horizon joined, waits in its queue.
C11Witness ==
  \E h \in Conns :
    /\ role[h] = Horizon /\ pc[h] = "reading" /\ send_task[h] = "running"
    /\ session_id[h] # None
    /\ wire = Some(Written(h, AssignedFrame(session_id[h][1])))
    /\ chan[h] # << >> /\ Head(chan[h]) \in RelayedText

\* The step appends a close frame to the queue of connection c.
ClosesQueue(c) == Len(chan'[c]) = Len(chan[c]) + 1 /\ chan'[c][Len(chan'[c])].kind = "Close"

\* The voyager handles registered anywhere in registry S.
VoyagerHandles(S) == UNION { Range(S[id].voyagers) : id \in DOMAIN S }

\* C12: no step but an admin close appends a close frame to a connection's
\* queue, and no step of a Horizon (its routing, its cleanup) and no join of
\* a Horizon removes a Voyager handle from the registry.
C12NoForcedDisconnect ==
  [][\A c \in Conns :
       /\ ClosesQueue(c) => Answers("close")
       /\ (role'[c] = Horizon /\ (CleanupStep(c) \/ JoinStep(c) \/ pc'[c] # pc[c])) =>
            VoyagerHandles(sessions) \subseteq VoyagerHandles(sessions')]_vars

\* The session id of connection c has no entry in the registry.
Absent(c) == session_id[c] # None /\ session_id[c][1] \notin DOMAIN sessions

\* C13: while the session id of a connection has no entry, a message routed
\* from it and a cleanup of it leave the registry as it is and append to no
\* queue; a permitted admin get or close of an id without entry answers
\* not-found and changes neither the registry nor any queue.
C13AbsentSessionNoOp ==
  [][/\ \A c \in Conns :
          /\ (nrecv' # nrecv /\ Absent(c) /\ \E msg \in RelayMsgs : route_message(c, msg)) =>
               (sessions' = sessions /\ chan' = chan)
          /\ (CleanupStep(c) /\ Absent(c)) =>
               /\ sessions' = sessions
               /\ \A d \in Conns : chan'[d] = chan[d] \/ (d = c /\ chan'[d] = << >>)
     /\ Answers("get") =>
          \A id \in AdminIds, t \in TokenParams :
            (id \notin DOMAIN sessions /\ token_valid(token, t) /\ get_session(id, t)) =>
              /\ resp' = Some(Response("get", Some(id), "NOT_FOUND", {}))
              /\ sessions' = sessions /\ chan' = chan
     /\ Answers("close") =>
          \A id \in AdminIds, t \in TokenParams :
            (id \notin DOMAIN sessions /\ token_valid(token, t) /\ close_session(id, t)) =>
              /\ resp' = Some(Response("close", Some(id), "NOT_FOUND", {}))
              /\ sessions' = sessions /\ chan' = chan]_vars

\* A Voyager has sent a frame after an admin close removed its session: the
\* queue of the session's Horizon, whose writer has not started, holds the
\* close signal and nothing behind it.
C13Witness ==
  \E h, v \in Conns :
    /\ role[h] = Horizon /\ pc[h] = "assigning"
    /\ role[v] = Voyager /\ pc[v] \in {"reading", "reader_ended"}
    /\ SameSession({h, v})
    /\ sessions = EmptyMap
    /\ nrecv >= 1
    /\ chan[h] = << Close >>
    /\ \A d \in Conns \ {h, v} : pc[d] = "idle"

\* C14: a frame routed from a Voyager whose session has a horizon handle is
\* appended once, at the tail, to the queue of that handle, which belongs to
\* a Horizon of the session and not to the sender, and to no other queue,
\* and the registry stays as it is; if the handle's receiver is gone nothing
\* is appended and the session's horizon is cleared, its voyagers and every
\* other session staying as they are.
C14VoyagerFanIn ==
  [][\A c \in Conns :
       (nrecv' # nrecv /\ pc[c] = "reading" /\ role[c] = Voyager /\ ~Absent(c)) =>
         \A msg \in RelayMsgs :
           (sessions[session_id[c][1]].horizon # None /\ route_message(c, msg)) =>
             LET s == session_id[c][1]
                 h == sessions[s].horizon[1]
             IN /\ h # c /\ role[h] = Horizon /\ session_id[h] = Some(s)
                /\ IF send_ok(rx_open, h)
                     THEN /\ \A d \in Conns :
                               chan'[d] = IF d = h THEN Append(chan[d], msg) ELSE chan[d]
                          /\ sessions' = sessions
                     ELSE /\ chan' = chan
                          /\ sessions' = [sessions EXCEPT ![s].horizon = None]]_vars

\* A Horizon whose writer has not started holds two frames of the Voyagers
\* of its session; the Voyagers' own queues are empty.
C14Witness ==
  \E h, v, w \in Conns :
    /\ role[h] = Horizon /\ pc[h] = "assigning"
    /\ role[v] = Voyager /\ role[w] = Voyager /\ v # w
    /\ SameSession({h, v, w})
    /\ nrecv = 2
    /\ chan[h] = << Text(TypedObjectText("create")), Text(TypedObjectText("output")) >>
    /\ chan[v] = << >> /\ chan[w] = << >>
    /\ Total(v) = 0 /\ Total(w) = 0

\* C15: no step in which a reader routes a frame leaves a session without
\* horizon and without voyagers in the registry.
C15RoutingKeepsNoEmptySession ==
  [][nrecv' # nrecv =>
       \A id \in DOMAIN sessions' :
         sessions'[id].horizon # None \/ sessions'[id].voyagers # << >>]_vars

\* A Voyager alone in its session has had two control requests routed: the
\* session is still registered, without Horizon, and the Voyager's queue
\* holds the two offline replies.
C15Witness ==
  \E v \in Conns :
    /\ role[v] = Voyager /\ pc[v] = "reading" /\ Total(v) = 0
    /\ nrecv = 2
    /\ ~Absent(v)
    /\ sessions[session_id[v][1]] = [horizon |-> None, voyagers |-> << v >>]
    /\ chan[v] = << HorizonOffline, HorizonOffline >>

\* C17 as claimed: a running writer writes the head of its queue and removes
\* it; a writer that has dequeued a close signal, or whose write failed, has
\* stopped and run cleanup in that step; and nothing is written to a socket
\* that a close signal has been written to.
C17WriterStopsOnClose ==
  [][\A c \in Conns :
       /\ (WritesTo(c) /\ send_task[c] = "running") =>
            (wire'[1].frame = Head(chan[c]) /\ chan'[c] = Tail(chan[c]))
       /\ (WritesTo(c) /\ wire'[1].frame.kind = "Close") =>
            (send_task'[c] = "done" /\ cleanups'[c].writer = cleanups[c].writer + 1)
       /\ (send_task[c] = "running" /\ send_task'[c] = "done") =>
            cleanups'[c].writer = cleanups[c].writer + 1
       /\ close_sent[c] => ~WritesTo(c)]_vars

\* C17 as amended: a writer that writes a frame, a close signal included,
\* writes the head of its queue, removes it and goes on running without
\* cleanup; a writer ends only in a step in which it dequeues a frame that is
\* not written, runs cleanup once and drops its queue; nothing is written
\* to a socket that a close signal has been written to, and nothing by a
\* writer that has ended or was cancelled.
C17WriterStopsOnFailure ==
  [][\A c \in Conns :
       /\ (WritesTo(c) /\ send_task[c] = "running") =>
            /\ wire'[1].frame = Head(chan[c]) /\ chan'[c] = Tail(chan[c])
            /\ send_task'[c] = "running" /\ cleanups'[c] = cleanups[c]
            /\ close_sent'[c] = (close_sent[c] \/ wire'[1].frame.kind = "Close")
       /\ (send_task[c] = "running" /\ send_task'[c] = "done") =>
            /\ chan[c] # << >> /\ chan'[c] = << >> /\ ~WritesTo(c)
            /\ cleanups'[c].writer = cleanups[c].writer + 1
       /\ cleanups'[c].writer # cleanups[c].writer =>
            (send_task[c] = "running" /\ send_task'[c] = "done")
       /\ close_sent[c] => ~WritesTo(c)
       /\ send_task[c] \in {"done", "aborted"} =>
            (~WritesTo(c) /\ send_task'[c] = send_task[c])]_vars

\* A writer has written a close signal and is still running, without
\* cleanup, with a frame queued behind the close signal.
C17Witness ==
  \E c \in Conns :
    /\ close_sent[c] /\ send_task[c] = "running"
    /\ Total(c) = 0
    /\ chan[c] # << >>

\* C18: an execution of cleanup for a connection for which cleanup has
\* executed before leaves the registry as it is.
C18CleanupIdempotent ==
  [][\A c \in Conns : (CleanupStep(c) /\ Total(c) >= 1) => sessions' = sessions]_vars

\* Cleanup has executed twice for a Voyager, from its writer and from its
\* handler, and the session of its id is registered with another Voyager,
\* which joined later, as its only member.
C18Witness ==
  \E c, w \in Conns :
    /\ c < w
    /\ role[c] = Voyager /\ role[w] = Voyager
    /\ cleanups[c] = [handler |-> 1, writer |-> 1]
    /\ SameSession({c, w})
    /\ ~Absent(c)
    /\ sessions[session_id[c][1]] = [horizon |-> None, voyagers |-> << w >>]

\* The handles the registry refers to.
Handles(S) ==
  UNION { Range(S[id].voyagers) \cup Range(S[id].horizon) : id \in DOMAIN S }

\* C19: a connection whose reader loop has ended is eventually closed; a
\* closed connection has no running writer and no receiver, and its handle
\* is in no session.
C19NoDanglingEntries ==
  /\ \A c \in FewConns : (pc[c] \in {"reader_ended", "aborting"}) ~> (pc[c] = "closed")
  /\ [](\A c \in Conns :
          pc[c] = "closed" =>
            /\ send_task[c] \in {"unspawned", "done", "aborted"}
            /\ ~rx_open[c]
            /\ c \notin Handles(sessions))

\* A Voyager is closed, its writer cancelled, and the session it was in is
\* registered with its Horizon only.
C19Witness ==
  \E c, h \in Conns :
    /\ role[c] = Voyager /\ pc[c] = "closed" /\ send_task[c] = "aborted"
    /\ role[h] = Horizon /\ SameSession({c, h})
    /\ ~Absent(c)
    /\ sessions[session_id[c][1]] = [horizon |-> Some(h), voyagers |-> << >>]

\* The handle of connection c is registered in the session of its id.
Member(c) ==
  /\ ~Absent(c)
  /\ c \in Range(sessions[session_id[c][1]].horizon) \cup Range(sessions[session_id[c][1]].voyagers)

\* C20: a frame routed from a connection whose handle is not registered in
\* the session of its id is delivered all the same: from a Horizon to every
\* Voyager handle of that session, from a Voyager to the session's horizon
\* handle, and the registry stays as it is.
C20RoutingIgnoresMembership ==
  [][\A c \in Conns :
       (nrecv' # nrecv /\ pc[c] = "reading" /\ ~Absent(c) /\ ~Member(c)) =>
         \A msg \in RelayMsgs :
           route_message(c, msg) =>
             LET s == sessions[session_id[c][1]]
                 to == IF role[c] = Horizon THEN Range(s.voyagers) ELSE Range(s.horizon)
             IN /\ sessions' = sessions
                /\ \A d \in Conns \ {c} :
                     chan'[d] = IF d \in to THEN Append(chan[d], msg) ELSE chan[d]
                /\ (role[c] = Horizon \/ s.horizon # None) => chan'[c] = chan[c]]_vars

\* A Horizon displaced by a newer Horizon, which has not started relaying,
\* has reached the Voyager that joined the session after the displacement.
C20Witness ==
  \E h, g, v \in Conns :
    /\ h < g /\ g < v
    /\ role[h] = Horizon /\ role[g] = Horizon /\ role[v] = Voyager
    /\ SameSession({h, g, v})
    /\ pc[g] = "assigning"
    /\ ~Absent(v)
    /\ sessions[session_id[v][1]] = [horizon |-> Some(g), voyagers |-> << v >>]
    /\ nrecv = 1
    /\ chan[v] = << Text(TypedObjectText("output")) >>

====
